---- MODULE Spec2Model ----
(***************************************************************************)
(* Voice-bot front-end: the conversation state machine, the audio-level    *)
(* sampler and the connection lifecycle, in its two controllers:           *)
(*   "sim"  - src/app/page.tsx (same logic as src/unnamed/part_000): the   *)
(*            fully simulated controller (setTimeout / setInterval);       *)
(*   "live" - src/unnamed/part_002: the controller wired to the real-time  *)
(*            transport SDK (Room, microphone, requestAnimationFrame);     *)
(*   "components" - src/unnamed/part_001: the revision built on the SDK's  *)
(*            components, whose displayed state follows the agent's.       *)
(* Both components keep the same React state (botState, isConnected,       *)
(* audioLevel, transcript); `variant` says which component is mounted.     *)
(* Time is counted in units of 1500 ms, the granularity of the timeouts.   *)
(* Audio levels are counted in hundredths.                                 *)
(***************************************************************************)
EXTENDS Integers, Sequences, FiniteSets

VARIABLES
  variant,            \* "sim" | "live": which component is mounted
  mounted,            \* FALSE once the component has been unmounted
  clicks,             \* number of user requests made so far
  event,              \* name of the last handler / callback that ran
  disconnectCalled,   \* a disconnect was requested and no connect has been requested since
  requests,           \* the user requests made so far, in order
  botState,           \* useState botState
  isConnected,        \* useState isConnected
  audioLevel,         \* useState audioLevel (hundredths)
  transcript,         \* useState transcript
  intervalRef,        \* sim: intervalRef.current (0 = null)
  intervals,          \* sim: ids of the setInterval loops still running
  nextId,             \* sim: next id setInterval hands out
  timers,             \* sim: pending setTimeout callbacks, in creation order
  roomRef,            \* live: roomRef.current (0 = null)
  rooms,              \* live: every Room created so far, by id
  fetching,           \* live: handleConnect calls awaiting fetch("/api/token")
  micPending,         \* live: toggleRecording calls awaiting setMicrophoneEnabled, each by its Room
  animationFrameRef,  \* live: animationFrameRef.current (0 = null), as the loop owning that frame
  loops,              \* live: updateVolume loops that still have a frame requested
  nextLoop,           \* live: id of the next updateVolume loop
  apiKey,             \* token endpoint: process.env.LIVEKIT_API_KEY
  apiSecret,          \* token endpoint: process.env.LIVEKIT_API_SECRET
  agentState,         \* components: state of useVoiceAssistant()
  localParticipant,   \* components: useLocalParticipant() returned a participant
  isMicrophoneEnabled,\* components: localParticipant.isMicrophoneEnabled
  micRequests,        \* components: setMicrophoneEnabled calls the SDK has not served yet
  micWanted           \* components: the flag as the toggle-mute requests made so far ask for it

vars == <<variant, mounted, clicks, event, disconnectCalled, requests, botState, isConnected, audioLevel,
          transcript, intervalRef, intervals, nextId, timers, roomRef, rooms,
          fetching, micPending, animationFrameRef, loops, nextLoop,
          apiKey, apiSecret,
          agentState, localParticipant, isMicrophoneEnabled, micRequests, micWanted>>

simRefs == <<intervalRef, intervals, nextId, timers>>
liveRefs == <<roomRef, rooms, fetching, micPending, animationFrameRef, loops, nextLoop>>
serverEnv == <<apiKey, apiSecret>>
agentRefs == <<agentState, localParticipant, isMicrophoneEnabled, micRequests, micWanted>>

\* ---- bounds ----
MaxClicks == 4

\* ---- program constants ----
ConnectDelay == 1     \* setTimeout(..., 1500)
ResponseDelay == 1    \* setTimeout(..., 1500)
PlaybackDelay == 2    \* setTimeout(..., 3000)

BotStates == {"idle", "listening", "processing", "speaking"}

\* 0.3 + Math.random() * 0.7, in hundredths: the two ends of the range
SimLevels == {30, 99}
\* average / 100 with average in 0..255, in hundredths: the two ends of the range
LiveLevels == {0, 255}

UserText == "Hello, I'd like to know more about the service."
BotText == "I can certainly help with that. What specific features are you interested in?"

Msg(role, text) == [role |-> role, text |-> text]

\* addMessage losing the new entry: setTranscript(prev => prev)
addMessageDropped(t, role, text) == t

\* addMessage putting the new entry first: [{role, text, timestamp}, ...prev]
addMessagePrepend(t, role, text) == <<Msg(role, text)>> \o t

\* addMessage: setTranscript(prev => [...prev, {role, text, timestamp}])
addMessage(t, role, text) == Append(t, Msg(role, text))

\* lastMessage: transcript[transcript.length - 1] or null
NoMessage == Msg("none", "")
lastMessage(t) == IF Len(t) > 0 THEN t[Len(t)] ELSE NoMessage

\* clearInterval reviving a loop that is not running
clearIntervalFlip(set, id) == IF id \in set THEN set \ {id} ELSE set \cup {id}

\* clearInterval(id): stops the loop with that id, a no-op for any other id
clearInterval(set, id) == set \ {id}

\* ---- the simulated controller (src/app/page.tsx) ----

\* a user request is possible while the budget lasts
UserCan == mounted /\ clicks < MaxClicks

\* a setTimeout callback is due: its delay has elapsed and every callback
\* created before it with the same delay has already run
Due(i) ==
  /\ timers[i].rem = 0
  /\ \A j \in 1..(i - 1) : timers[j].delay # timers[i].delay
RemoveAt(s, i) == [j \in 1..(Len(s) - 1) |-> IF j < i THEN s[j] ELSE s[j + 1]]
Timer(kind, delay) == [kind |-> kind, delay |-> delay, rem |-> delay]

\* time passes by one unit; a callback that is due runs first
Tick ==
  /\ variant = "sim"
  /\ timers # <<>>
  /\ \A i \in 1..Len(timers) : timers[i].rem > 0
  /\ timers' = [i \in 1..Len(timers) |-> [timers[i] EXCEPT !.rem = @ - 1]]
  /\ event' = "tick"
  /\ UNCHANGED <<variant, mounted, clicks, botState, isConnected, audioLevel,
                 transcript, intervalRef, intervals, nextId>>
  /\ UNCHANGED liveRefs
  /\ disconnectCalled' = disconnectCalled
  /\ requests' = requests
  /\ UNCHANGED serverEnv
  /\ UNCHANGED agentRefs

\* handleConnect setting a state outside the enumeration
SimHandleConnectUntyped ==
  /\ variant = "sim" /\ UserCan
  /\ ~isConnected
  /\ clicks' = clicks + 1
  /\ event' = "connect"
  /\ botState' = "connecting"
  /\ timers' = Append(timers, Timer("connect", ConnectDelay))
  /\ UNCHANGED <<variant, mounted, isConnected, audioLevel, transcript,
                 intervalRef, intervals, nextId>>
  /\ UNCHANGED liveRefs
  /\ disconnectCalled' = FALSE
  /\ requests' = Append(requests, event')
  /\ UNCHANGED serverEnv
  /\ UNCHANGED agentRefs

\* handleConnect: the Connect button is rendered while !isConnected
SimHandleConnect ==
  /\ variant = "sim" /\ UserCan
  /\ ~isConnected
  /\ clicks' = clicks + 1
  /\ event' = "connect"
  /\ botState' = "processing"
  /\ timers' = Append(timers, Timer("connect", ConnectDelay))
  /\ UNCHANGED <<variant, mounted, isConnected, audioLevel, transcript,
                 intervalRef, intervals, nextId>>
  /\ UNCHANGED liveRefs
  /\ disconnectCalled' = FALSE
  /\ requests' = Append(requests, event')
  /\ UNCHANGED serverEnv
  /\ UNCHANGED agentRefs

\* the callback handleConnect scheduled
SimConnectTimeout ==
  /\ variant = "sim"
  /\ \E i \in 1..Len(timers) :
       /\ timers[i].kind = "connect" /\ Due(i)
       /\ timers' = RemoveAt(timers, i)
  /\ event' = "connected"
  /\ isConnected' = TRUE
  /\ botState' = "idle"
  /\ transcript' = addMessage(transcript, "system", "Connected to HF Inference Model.")
  /\ UNCHANGED <<variant, mounted, clicks, audioLevel, intervalRef, intervals, nextId>>
  /\ UNCHANGED liveRefs
  /\ disconnectCalled' = disconnectCalled
  /\ requests' = requests
  /\ UNCHANGED serverEnv
  /\ UNCHANGED agentRefs

\* handleDisconnect: the X button is rendered while isConnected
SimHandleDisconnect ==
  /\ variant = "sim" /\ UserCan
  /\ isConnected
  /\ clicks' = clicks + 1
  /\ event' = "disconnect"
  /\ isConnected' = FALSE
  /\ botState' = "idle"
  /\ audioLevel' = 0
  /\ intervals' = IF intervalRef # 0 THEN clearInterval(intervals, intervalRef) ELSE intervals
  /\ transcript' = addMessage(transcript, "system", "Disconnected.")
  /\ UNCHANGED <<variant, mounted, intervalRef, nextId, timers>>
  /\ UNCHANGED liveRefs
  /\ disconnectCalled' = TRUE
  /\ requests' = Append(requests, event')
  /\ UNCHANGED serverEnv
  /\ UNCHANGED agentRefs

\* toggleRecording without its early return
SimToggleNeverIgnored == FALSE

\* toggleRecording returns at once when no session is connected
SimToggleIgnored == ~isConnected

\* simulateVoiceActivity: clear the previous loop, start a new one
simulateVoiceActivity(set, ref, id) ==
  (IF ref # 0 THEN clearInterval(set, ref) ELSE set) \cup {id}

\* toggleRecording: the orb and the Talk/Stop button
SimToggleRecording ==
  /\ variant = "sim" /\ UserCan
  /\ clicks' = clicks + 1
  /\ IF SimToggleIgnored
       THEN /\ event' = "toggleIgnored"
            /\ UNCHANGED <<botState, audioLevel, intervalRef, intervals, nextId, timers>>
       ELSE IF botState = "listening"
         THEN /\ event' = "toggleStop"
              /\ botState' = "processing"
              /\ intervals' = IF intervalRef # 0 THEN clearInterval(intervals, intervalRef) ELSE intervals
              /\ audioLevel' = 0
              /\ timers' = Append(timers, Timer("response", ResponseDelay))
              /\ UNCHANGED <<intervalRef, nextId>>
         ELSE /\ event' = "toggleStart"
              /\ botState' = "listening"
              /\ intervals' = simulateVoiceActivity(intervals, intervalRef, nextId)
              /\ intervalRef' = nextId
              /\ nextId' = nextId + 1
              /\ UNCHANGED <<audioLevel, timers>>
  /\ UNCHANGED <<variant, mounted, isConnected, transcript>>
  /\ UNCHANGED liveRefs
  /\ disconnectCalled' = disconnectCalled
  /\ requests' = Append(requests, event')
  /\ UNCHANGED serverEnv
  /\ UNCHANGED agentRefs

\* the callback the stop branch scheduled: the mock response becomes ready
SimResponseTimeout ==
  /\ variant = "sim"
  /\ \E i \in 1..Len(timers) :
       /\ timers[i].kind = "response" /\ Due(i)
       /\ timers' = Append(RemoveAt(timers, i), Timer("playback", PlaybackDelay))
  /\ event' = "response"
  /\ botState' = "speaking"
  /\ transcript' = addMessage(transcript, "user", UserText)
  /\ intervals' = simulateVoiceActivity(intervals, intervalRef, nextId)
  /\ intervalRef' = nextId
  /\ nextId' = nextId + 1
  /\ UNCHANGED <<variant, mounted, clicks, isConnected, audioLevel>>
  /\ UNCHANGED liveRefs
  /\ disconnectCalled' = disconnectCalled
  /\ requests' = requests
  /\ UNCHANGED serverEnv
  /\ UNCHANGED agentRefs

\* the nested callback without its setBotState("idle")
SimPlaybackTimeoutNoIdle ==
  /\ variant = "sim"
  /\ \E i \in 1..Len(timers) :
       /\ timers[i].kind = "playback" /\ Due(i)
       /\ timers' = RemoveAt(timers, i)
  /\ event' = "playback"
  /\ transcript' = addMessage(transcript, "bot", BotText)
  /\ botState' = botState
  /\ intervals' = IF intervalRef # 0 THEN clearInterval(intervals, intervalRef) ELSE intervals
  /\ audioLevel' = 0
  /\ UNCHANGED <<variant, mounted, clicks, isConnected, intervalRef, nextId>>
  /\ UNCHANGED liveRefs
  /\ disconnectCalled' = disconnectCalled
  /\ requests' = requests
  /\ UNCHANGED serverEnv
  /\ UNCHANGED agentRefs

\* the nested callback: playback completes
SimPlaybackTimeout ==
  /\ variant = "sim"
  /\ \E i \in 1..Len(timers) :
       /\ timers[i].kind = "playback" /\ Due(i)
       /\ timers' = RemoveAt(timers, i)
  /\ event' = "playback"
  /\ transcript' = addMessage(transcript, "bot", BotText)
  /\ botState' = "idle"
  /\ intervals' = IF intervalRef # 0 THEN clearInterval(intervals, intervalRef) ELSE intervals
  /\ audioLevel' = 0
  /\ UNCHANGED <<variant, mounted, clicks, isConnected, intervalRef, nextId>>
  /\ UNCHANGED liveRefs
  /\ disconnectCalled' = disconnectCalled
  /\ requests' = requests
  /\ UNCHANGED serverEnv
  /\ UNCHANGED agentRefs

\* the setInterval callback of simulateVoiceActivity
SimIntervalTick ==
  /\ variant = "sim"
  /\ \E id \in intervals : \E newLevel \in SimLevels :
       audioLevel' = newLevel
  /\ event' = "sample"
  /\ UNCHANGED <<variant, mounted, clicks, botState, isConnected, transcript>>
  /\ UNCHANGED simRefs
  /\ UNCHANGED liveRefs
  /\ disconnectCalled' = disconnectCalled
  /\ requests' = requests
  /\ UNCHANGED serverEnv
  /\ UNCHANGED agentRefs

\* ---- the live controller (src/unnamed/part_002) ----
\* The transport SDK is the environment.  A Room is "connecting" from
\* room.connect() until the SDK reports the session established
\* ("connected") or rejects the connect promise ("failed"); disconnect() on
\* a connected Room makes it "closing" until the SDK emits the session-ended
\* event ("ended"), and on a connecting Room it makes the pending connect
\* reject ("aborting"); a connected Room can also be dropped by the
\* transport, which emits the same session-ended event.

\* a React state setter: updates of an unmounted component are dropped
Set(old, new) == IF mounted THEN new ELSE old

NewRoom == [st |-> "connecting", released |-> 0]

\* room.disconnect(), as the SDK sees it
disconnectRoom(rs, r) ==
  [rs EXCEPT ![r] = [st |-> CASE @.st = "connected" -> "closing"
                              [] @.st = "connecting" -> "aborting"
                              [] OTHER -> @.st,
                     released |-> @.released + 1]]

\* cancelAnimationFrame(id): ends the loop that owns the frame, if any
cancelAnimationFrame(set, id) == set \ {id}

\* ---- the token endpoint (src/unnamed/part_003) ----

Undefined == "<undefined>"
EnvValues == {Undefined, "", "devkey"}
\* Math.random().toString(36).substring(7)
RandomSuffixes == {"k3x9q", "0"}

\* !value: an unset or empty environment variable
Missing(value) == value = Undefined \/ value = ""

\* at.addGrant({...})
VideoGrant == [roomJoin |-> TRUE, room |-> "voice-bot-room",
               canPublish |-> TRUE, canSubscribe |-> TRUE]

\* new AccessToken(apiKey, apiSecret, {identity}) ... at.toJwt()
AccessToken(key, secret, identity) ==
  [iss |-> key, signedWith |-> secret, sub |-> identity, video |-> VideoGrant]

\* GET testing only the API key
GETKeyOnly(key, secret, rnd) ==
  IF Missing(key)
    THEN [status |-> 500, body |-> [error |-> "Server misconfigured"]]
    ELSE [status |-> 200,
          body |-> [accessToken |-> AccessToken(key, secret, "user-" \o rnd)]]

\* GET: the route handler
GET(key, secret, rnd) ==
  IF Missing(key) \/ Missing(secret)
    THEN [status |-> 500, body |-> [error |-> "Server misconfigured"]]
    ELSE [status |-> 200,
          body |-> [accessToken |-> AccessToken(key, secret, "user-" \o rnd)]]

\* data.accessToken is undefined
NoToken(data) == "accessToken" \notin DOMAIN data

\* handleConnect up to the first await: the Connect button is rendered while !isConnected
HandleConnect ==
  /\ variant = "live" /\ UserCan
  /\ ~isConnected
  /\ clicks' = clicks + 1
  /\ event' = "connect"
  /\ botState' = "processing"
  /\ transcript' = addMessage(transcript, "system", "Connecting to Server...")
  /\ fetching' = fetching + 1
  /\ UNCHANGED <<variant, mounted, isConnected, audioLevel, roomRef, rooms,
                 micPending, animationFrameRef, loops, nextLoop>>
  /\ UNCHANGED simRefs
  /\ disconnectCalled' = FALSE
  /\ requests' = Append(requests, event')
  /\ UNCHANGED serverEnv
  /\ UNCHANGED agentRefs

\* the catch block of handleConnect without setBotState("idle")
connectFailedStuck(message) ==
  /\ botState' = botState
  /\ transcript' = Set(transcript, addMessage(transcript, "system", message))

\* the catch block of handleConnect
connectFailed(message) ==
  /\ botState' = Set(botState, "idle")
  /\ transcript' = Set(transcript, addMessage(transcript, "system", message))

\* handleConnect from the token response to room.connect(url, token):
\* the fetch fails, or the endpoint's answer is read
FetchDone ==
  /\ variant = "live"
  /\ fetching > 0
  /\ fetching' = fetching - 1
  /\ \/ /\ event' = "fetchFailed"
        /\ connectFailed("Connection failed: Failed to fetch")
        /\ UNCHANGED <<roomRef, rooms>>
     \/ \E rnd \in RandomSuffixes :
          LET data == GET(apiKey, apiSecret, rnd).body IN
          IF NoToken(data)
            THEN /\ event' = "fetchFailed"
                 /\ connectFailed("Connection failed: No token received")
                 /\ UNCHANGED <<roomRef, rooms>>
            ELSE /\ event' = "roomCreated"
                 /\ rooms' = Append(rooms, NewRoom)
                 /\ roomRef' = Len(rooms) + 1
                 /\ UNCHANGED <<botState, transcript>>
  /\ UNCHANGED <<variant, mounted, clicks, isConnected, audioLevel,
                 micPending, animationFrameRef, loops, nextLoop>>
  /\ UNCHANGED simRefs
  /\ disconnectCalled' = disconnectCalled
  /\ requests' = requests
  /\ UNCHANGED serverEnv
  /\ UNCHANGED agentRefs

\* the RoomEvent.Connected handler
RoomConnected ==
  /\ variant = "live"
  /\ \E r \in 1..Len(rooms) :
       /\ rooms[r].st = "connecting"
       /\ rooms' = [rooms EXCEPT ![r].st = "connected"]
  /\ event' = "connected"
  /\ isConnected' = Set(isConnected, TRUE)
  /\ botState' = Set(botState, "idle")
  /\ transcript' = Set(transcript, addMessage(transcript, "system", "Secure Link Established."))
  /\ UNCHANGED <<variant, mounted, clicks, audioLevel, roomRef, fetching,
                 micPending, animationFrameRef, loops, nextLoop>>
  /\ UNCHANGED simRefs
  /\ disconnectCalled' = disconnectCalled
  /\ requests' = requests
  /\ UNCHANGED serverEnv
  /\ UNCHANGED agentRefs

\* await room.connect(url, token) rejects: the catch block runs
RoomConnectRejected ==
  /\ variant = "live"
  /\ \E r \in 1..Len(rooms) :
       /\ rooms[r].st \in {"connecting", "aborting"}
       /\ rooms' = [rooms EXCEPT ![r].st = "failed"]
  /\ event' = "connectRejected"
  /\ connectFailed("Connection failed: could not establish signal connection")
  /\ UNCHANGED <<variant, mounted, clicks, isConnected, audioLevel, roomRef, fetching,
                 micPending, animationFrameRef, loops, nextLoop>>
  /\ UNCHANGED simRefs
  /\ disconnectCalled' = disconnectCalled
  /\ requests' = requests
  /\ UNCHANGED serverEnv
  /\ UNCHANGED agentRefs

\* the RoomEvent.Disconnected handler: after disconnect(), or a transport drop
RoomDisconnected ==
  /\ variant = "live"
  /\ \E r \in 1..Len(rooms) :
       /\ rooms[r].st \in {"connected", "closing"}
       /\ event' = (IF rooms[r].st = "connected" THEN "dropped" ELSE "ended")
       /\ rooms' = [rooms EXCEPT ![r].st = "ended"]
  /\ isConnected' = Set(isConnected, FALSE)
  /\ botState' = Set(botState, "idle")
  /\ transcript' = Set(transcript, addMessage(transcript, "system", "Disconnected."))
  /\ UNCHANGED <<variant, mounted, clicks, audioLevel, roomRef, fetching,
                 micPending, animationFrameRef, loops, nextLoop>>
  /\ UNCHANGED simRefs
  /\ disconnectCalled' = disconnectCalled
  /\ requests' = requests
  /\ UNCHANGED serverEnv
  /\ UNCHANGED agentRefs

\* the RoomEvent.TrackSubscribed handler: the agent's audio track is attached
\* to a new element of the page; the controller's state is not touched
TrackSubscribed ==
  /\ variant = "live"
  /\ \E r \in 1..Len(rooms) : rooms[r].st = "connected"
  /\ UNCHANGED vars

\* the RoomEvent.DataReceived handler with its fallback addMessage("bot", str)
DataReceivedShown ==
  /\ variant = "live"
  /\ \E r \in 1..Len(rooms) : rooms[r].st = "connected"
  /\ transcript' = Set(transcript, addMessage(transcript, "bot", "payload"))
  /\ UNCHANGED <<variant, mounted, clicks, event, disconnectCalled, requests,
                 botState, isConnected, audioLevel>>
  /\ UNCHANGED simRefs
  /\ UNCHANGED liveRefs
  /\ UNCHANGED serverEnv
  /\ UNCHANGED agentRefs
  /\ UNCHANGED agentRefs

\* the RoomEvent.DataReceived handler: the payload is decoded and parsed,
\* and the result dropped; the controller's state is not touched
DataReceived ==
  /\ variant = "live"
  /\ \E r \in 1..Len(rooms) : rooms[r].st = "connected"
  /\ UNCHANGED vars

\* handleDisconnect without roomRef.current = null
handleDisconnectKeepsRef ==
  /\ rooms' = IF roomRef # 0 THEN disconnectRoom(rooms, roomRef) ELSE rooms
  /\ roomRef' = roomRef
  /\ loops' = IF animationFrameRef # 0
                THEN cancelAnimationFrame(loops, animationFrameRef) ELSE loops

\* handleDisconnect, the part that works on the refs
handleDisconnectRefs ==
  /\ rooms' = IF roomRef # 0 THEN disconnectRoom(rooms, roomRef) ELSE rooms
  /\ roomRef' = 0
  /\ loops' = IF animationFrameRef # 0
                THEN cancelAnimationFrame(loops, animationFrameRef) ELSE loops

\* handleDisconnect: the X button is rendered while isConnected
HandleDisconnect ==
  /\ variant = "live" /\ UserCan
  /\ isConnected
  /\ clicks' = clicks + 1
  /\ event' = "disconnect"
  /\ handleDisconnectRefs
  /\ isConnected' = FALSE
  /\ audioLevel' = 0
  /\ UNCHANGED <<variant, mounted, botState, transcript, fetching, micPending,
                 animationFrameRef, nextLoop>>
  /\ UNCHANGED simRefs
  /\ disconnectCalled' = TRUE
  /\ requests' = Append(requests, event')
  /\ UNCHANGED serverEnv
  /\ UNCHANGED agentRefs

\* the useEffect cleanup: handleDisconnect on unmount; the component's state is gone
Unmount ==
  /\ variant = "live"
  /\ mounted
  /\ mounted' = FALSE
  /\ event' = "unmount"
  /\ handleDisconnectRefs
  /\ UNCHANGED <<variant, clicks, botState, isConnected, audioLevel, transcript,
                 fetching, micPending, animationFrameRef, nextLoop>>
  /\ UNCHANGED simRefs
  /\ disconnectCalled' = TRUE
  /\ requests' = requests
  /\ UNCHANGED serverEnv
  /\ UNCHANGED agentRefs

\* toggleRecording testing only the Room reference
ToggleIgnoredRefOnly == roomRef = 0

\* toggleRecording returns at once when no session is connected or no Room is held
ToggleIgnored == ~isConnected \/ roomRef = 0

\* toggleRecording up to its await: the orb and the Talk/Stop button
ToggleRecording ==
  /\ variant = "live" /\ UserCan
  /\ clicks' = clicks + 1
  /\ IF ToggleIgnored
       THEN /\ event' = "toggleIgnored"
            /\ UNCHANGED <<botState, audioLevel, loops, micPending>>
       ELSE IF botState = "listening"
         THEN /\ event' = "toggleStop"
              /\ botState' = "processing"
              /\ audioLevel' = 0
              /\ loops' = IF animationFrameRef # 0
                            THEN cancelAnimationFrame(loops, animationFrameRef) ELSE loops
              /\ UNCHANGED micPending
         ELSE /\ event' = "toggleStart"
              /\ botState' = "listening"
              /\ micPending' = Append(micPending, roomRef)
              /\ UNCHANGED <<audioLevel, loops>>
  /\ UNCHANGED <<variant, mounted, isConnected, transcript, roomRef, rooms,
                 fetching, animationFrameRef, nextLoop>>
  /\ UNCHANGED simRefs
  /\ disconnectCalled' = disconnectCalled
  /\ requests' = Append(requests, event')
  /\ UNCHANGED serverEnv
  /\ UNCHANGED agentRefs

\* setupRealVisualizer: a new updateVolume loop; its first run is synchronous
setupRealVisualizer(level) ==
  /\ audioLevel' = Set(audioLevel, level)
  /\ loops' = loops \cup {nextLoop}
  /\ animationFrameRef' = nextLoop
  /\ nextLoop' = nextLoop + 1

\* toggleRecording after the await, its catch block without setBotState("idle")
MicDoneStaysListening ==
  /\ variant = "live"
  /\ \E i \in 1..Len(micPending) :
       /\ micPending' = RemoveAt(micPending, i)
       /\ \E outcome \in {"track", "none", "rejected"} :
            CASE outcome = "track" ->
                   /\ rooms[micPending[i]].st = "connected"
                   /\ event' = "micOn"
                   /\ \E level \in LiveLevels : setupRealVisualizer(level)
                   /\ UNCHANGED <<botState, transcript>>
              [] outcome = "none" ->
                   /\ rooms[micPending[i]].st = "connected"
                   /\ event' = "micNone"
                   /\ UNCHANGED <<botState, transcript, audioLevel, loops,
                                  animationFrameRef, nextLoop>>
              [] outcome = "rejected" ->
                   /\ event' = "micDenied"
                   /\ transcript' = Set(transcript, addMessage(transcript, "system", "Microphone access denied."))
                   /\ botState' = botState
                   /\ UNCHANGED <<audioLevel, loops, animationFrameRef, nextLoop>>
  /\ UNCHANGED <<variant, mounted, clicks, isConnected, roomRef, rooms, fetching>>
  /\ UNCHANGED simRefs
  /\ disconnectCalled' = disconnectCalled
  /\ requests' = requests
  /\ UNCHANGED serverEnv
  /\ UNCHANGED agentRefs

\* toggleRecording after await setMicrophoneEnabled(true): the SDK publishes
\* the microphone only on a Room whose session is established
MicDone ==
  /\ variant = "live"
  /\ \E i \in 1..Len(micPending) :
       /\ micPending' = RemoveAt(micPending, i)
       /\ \E outcome \in {"track", "none", "rejected"} :
            CASE outcome = "track" ->
                   /\ rooms[micPending[i]].st = "connected"
                   /\ event' = "micOn"
                   /\ \E level \in LiveLevels : setupRealVisualizer(level)
                   /\ UNCHANGED <<botState, transcript>>
              [] outcome = "none" ->
                   /\ rooms[micPending[i]].st = "connected"
                   /\ event' = "micNone"
                   /\ UNCHANGED <<botState, transcript, audioLevel, loops,
                                  animationFrameRef, nextLoop>>
              [] outcome = "rejected" ->
                   /\ event' = "micDenied"
                   /\ transcript' = Set(transcript, addMessage(transcript, "system", "Microphone access denied."))
                   /\ botState' = Set(botState, "idle")
                   /\ UNCHANGED <<audioLevel, loops, animationFrameRef, nextLoop>>
  /\ UNCHANGED <<variant, mounted, clicks, isConnected, roomRef, rooms, fetching>>
  /\ UNCHANGED simRefs
  /\ disconnectCalled' = disconnectCalled
  /\ requests' = requests
  /\ UNCHANGED serverEnv
  /\ UNCHANGED agentRefs

\* updateVolume, run from requestAnimationFrame
FrameTick ==
  /\ variant = "live"
  /\ \E l \in loops : \E level \in LiveLevels :
       /\ audioLevel' = Set(audioLevel, level)
       /\ animationFrameRef' = l
  /\ event' = "sample"
  /\ UNCHANGED <<variant, mounted, clicks, botState, isConnected, transcript,
                 roomRef, rooms, fetching, micPending, loops, nextLoop>>
  /\ UNCHANGED simRefs
  /\ disconnectCalled' = disconnectCalled
  /\ requests' = requests
  /\ UNCHANGED serverEnv
  /\ UNCHANGED agentRefs

Init ==
  /\ variant \in {"sim", "live"}
  /\ mounted = TRUE
  /\ clicks = 0
  /\ event = "init"
  /\ disconnectCalled = FALSE
  /\ requests = <<>>
  /\ botState = "idle"
  /\ isConnected = FALSE
  /\ audioLevel = 0
  /\ transcript = <<>>
  /\ intervalRef = 0
  /\ intervals = {}
  /\ nextId = 1
  /\ timers = <<>>
  /\ roomRef = 0
  /\ rooms = <<>>
  /\ fetching = 0
  /\ micPending = <<>>
  /\ animationFrameRef = 0
  /\ loops = {}
  /\ nextLoop = 1
  /\ apiKey \in (IF variant = "live" THEN EnvValues ELSE {Undefined})
  /\ apiSecret \in (IF variant = "live" THEN EnvValues ELSE {Undefined})
  /\ agentState = "idle"
  /\ localParticipant = FALSE
  /\ isMicrophoneEnabled = FALSE
  /\ micRequests = <<>>
  /\ micWanted = FALSE

Next ==
  \/ Tick
  \/ SimHandleConnect
  \/ SimConnectTimeout
  \/ SimHandleDisconnect
  \/ SimToggleRecording
  \/ SimResponseTimeout
  \/ SimPlaybackTimeout
  \/ SimIntervalTick
  \/ HandleConnect
  \/ FetchDone
  \/ RoomConnected
  \/ RoomConnectRejected
  \/ RoomDisconnected
  \/ TrackSubscribed
  \/ DataReceived
  \/ HandleDisconnect
  \/ Unmount
  \/ ToggleRecording
  \/ MicDone
  \/ FrameTick

Spec == Init /\ [][Next]_vars

\* ---- the simulated controller on its own, with its timers firing ----

SimInit == Init /\ variant = "sim"

SimNext ==
  \/ Tick
  \/ SimHandleConnect
  \/ SimConnectTimeout
  \/ SimHandleDisconnect
  \/ SimToggleRecording
  \/ SimResponseTimeout
  \/ SimPlaybackTimeout
  \/ SimIntervalTick

\* every scheduled setTimeout callback eventually runs: time advances and a
\* callback that is due is run
TimersFire ==
  /\ WF_vars(Tick)
  /\ WF_vars(SimConnectTimeout)
  /\ WF_vars(SimResponseTimeout)
  /\ WF_vars(SimPlaybackTimeout)

FairSpec == SimInit /\ [][SimNext]_vars /\ TimersFire

\* ---- the components-based revision (src/unnamed/part_001) ----
\* VoiceAssistantContent is rendered inside the SDK's room component.  The
\* agent's state and the local participant come from SDK hooks; the SDK
\* serves setMicrophoneEnabled(v) some time after the call, in call order:
\* the flag becomes v, or, when the microphone cannot be opened, the call is
\* rejected and the flag stays as it is.

\* state can be: "listening" | "thinking" | "speaking" | "idle"
AgentStates == {"listening", "thinking", "speaking", "idle"}

\* const botState = state === "thinking" ? "processing" : state
DisplayedState(state) == IF state = "thinking" THEN "processing" ELSE state

ComponentsInit ==
  /\ variant = "components"
  /\ mounted = TRUE
  /\ clicks = 0
  /\ event = "init"
  /\ disconnectCalled = FALSE
  /\ requests = <<>>
  /\ agentState \in AgentStates
  /\ botState = DisplayedState(agentState)
  /\ isConnected = TRUE
  /\ audioLevel = 0
  /\ transcript = <<>>
  /\ intervalRef = 0
  /\ intervals = {}
  /\ nextId = 1
  /\ timers = <<>>
  /\ roomRef = 0
  /\ rooms = <<>>
  /\ fetching = 0
  /\ micPending = <<>>
  /\ animationFrameRef = 0
  /\ loops = {}
  /\ nextLoop = 1
  /\ apiKey = Undefined
  /\ apiSecret = Undefined
  /\ localParticipant \in BOOLEAN
  /\ isMicrophoneEnabled \in BOOLEAN
  /\ micRequests = <<>>
  /\ micWanted = isMicrophoneEnabled

\* useVoiceAssistant() reports a new agent state and the component re-renders
AgentStateChanged ==
  /\ variant = "components"
  /\ \E state \in AgentStates \ {agentState} :
       /\ agentState' = state
       /\ botState' = DisplayedState(state)
  /\ event' = "agentState"
  /\ UNCHANGED <<variant, mounted, clicks, disconnectCalled, requests, isConnected,
                 audioLevel, transcript, localParticipant, isMicrophoneEnabled,
                 micRequests, micWanted>>
  /\ UNCHANGED simRefs
  /\ UNCHANGED liveRefs
  /\ UNCHANGED serverEnv

\* toggleMute: the Live/Muted button
toggleMute ==
  /\ variant = "components" /\ UserCan
  /\ clicks' = clicks + 1
  /\ IF localParticipant
       THEN /\ event' = "toggleMute"
            /\ micRequests' = Append(micRequests, ~isMicrophoneEnabled)
            /\ micWanted' = ~micWanted
       ELSE /\ event' = "toggleMuteNoop"
            /\ UNCHANGED <<micRequests, micWanted>>
  /\ requests' = Append(requests, event')
  /\ UNCHANGED <<variant, mounted, disconnectCalled, botState, isConnected, audioLevel,
                 transcript, agentState, localParticipant, isMicrophoneEnabled>>
  /\ UNCHANGED simRefs
  /\ UNCHANGED liveRefs
  /\ UNCHANGED serverEnv

\* the SDK serves the oldest setMicrophoneEnabled call
MicRequestServed ==
  /\ variant = "components"
  /\ micRequests # <<>>
  /\ micRequests' = Tail(micRequests)
  /\ \/ /\ event' = "micSet"
        /\ isMicrophoneEnabled' = Head(micRequests)
     \/ /\ Head(micRequests) = TRUE
        /\ event' = "micRejected"
        /\ UNCHANGED isMicrophoneEnabled
  /\ UNCHANGED <<variant, mounted, clicks, disconnectCalled, requests, botState,
                 isConnected, audioLevel, transcript, agentState, localParticipant,
                 micWanted>>
  /\ UNCHANGED simRefs
  /\ UNCHANGED liveRefs
  /\ UNCHANGED serverEnv

ComponentsNext ==
  \/ AgentStateChanged
  \/ toggleMute
  \/ MicRequestServed

ComponentsSpec == ComponentsInit /\ [][ComponentsNext]_vars

\* ---- observations the properties are stated over ----

Toggles == {"toggleIgnored", "toggleStart", "toggleStop"}
SamplerCount == Cardinality(intervals) + Cardinality(loops)
Active == botState \in {"listening", "speaking"}
ConnectInFlight ==
  \/ \E i \in 1..Len(timers) : timers[i].kind = "connect"
  \/ fetching > 0
  \/ \E r \in 1..Len(rooms) : rooms[r].st \in {"connecting", "aborting"}
Disconnected == Msg("system", "Disconnected.")

\* C1: every change of botState is one of the defined transitions, each on
\* its trigger: idle->processing on a connect request, processing->idle on
\* connect completion or failure, idle->listening on toggle-speak while
\* connected, listening->processing on toggle-speak, processing->speaking
\* when the response is ready, speaking->idle when playback completes, and
\* any->idle on disconnect.
C1_DefinedTransitions ==
  [][(mounted' /\ botState' # botState) =>
       \/ botState = "idle" /\ botState' = "processing" /\ event' = "connect"
       \/ botState = "processing" /\ botState' = "idle"
            /\ event' \in {"connected", "fetchFailed", "connectRejected"}
       \/ botState = "idle" /\ botState' = "listening" /\ event' = "toggleStart" /\ isConnected
       \/ botState = "listening" /\ botState' = "processing" /\ event' = "toggleStop"
       \/ botState = "processing" /\ botState' = "speaking" /\ event' = "response"
       \/ botState = "speaking" /\ botState' = "idle" /\ event' = "playback"
       \/ botState' = "idle" /\ event' \in {"disconnect", "ended", "dropped"}]_vars

\* C2: a sampler loop is running if and only if botState is listening or
\* speaking, and then exactly one.
C2_SamplerIffActive ==
  mounted => (IF Active THEN SamplerCount = 1 ELSE SamplerCount = 0)

\* C3: at most one sampling loop is running at any time.
C3_AtMostOneSampler == SamplerCount <= 1

\* C4: while the connected flag is false, botState is idle, or processing
\* with a connect request in flight.
C4_StateFollowsSession ==
  (mounted /\ ~isConnected) =>
     \/ botState = "idle"
     \/ botState = "processing" /\ ConnectInFlight

\* C5: a user disconnect request leaves botState idle, connected false,
\* AudioLevel 0, no sampler loop running, no ConnectionHandle held and one
\* system "Disconnected." Utterance appended.
C5_DisconnectResets ==
  [][event' = "disconnect" =>
       /\ botState' = "idle"
       /\ ~isConnected'
       /\ audioLevel' = 0
       /\ SamplerCount' = 0
       /\ roomRef' = 0
       /\ transcript' = Append(transcript, Disconnected)]_vars

\* C6: a toggle-speak request made while the connected flag is false changes
\* nothing: botState, AudioLevel, the transcript, the sampler and the
\* ConnectionHandle all stay as they were.
C6_ToggleWhileDisconnected ==
  [][(event' \in Toggles /\ clicks' # clicks /\ ~isConnected) =>
       UNCHANGED <<botState, isConnected, audioLevel, transcript, intervalRef,
                   intervals, timers, roomRef, rooms, micPending,
                   animationFrameRef, loops>>]_vars

\* C6 happens: a toggle-speak request was made while a connect was still in
\* flight and the session not yet connected.
C6_Witness ==
  /\ event = "toggleIgnored"
  /\ ~isConnected
  /\ botState = "processing"
  /\ ConnectInFlight

\* C7: AudioLevel is 0 whenever botState is neither listening nor speaking.
C7_LevelZeroWhenInactive ==
  (mounted /\ ~Active) => audioLevel = 0

\* C8: in the simulated controller a toggle-speak request received while
\* botState is processing or speaking changes neither botState nor the sampler.
C8_ToggleOnlyIdleOrListening ==
  [][(variant = "sim" /\ event' \in Toggles /\ clicks' # clicks
        /\ botState \in {"processing", "speaking"}) =>
       UNCHANGED <<botState, intervalRef, intervals>>]_vars

\* C9: a disconnect call that follows another disconnect call, with no
\* connect request in between, appends no "Disconnected." Utterance and
\* changes no other state.
C9_SecondDisconnectNoop ==
  [][(event' \in {"disconnect", "unmount"} /\ disconnectCalled) =>
       UNCHANGED <<botState, isConnected, audioLevel, transcript, intervalRef,
                   intervals, roomRef, rooms, loops>>]_vars

\* C10: in the live controller a failed connect() leaves botState idle, the
\* connected flag false, one system Utterance recording the failure, and no
\* ConnectionHandle held.
C10_FailedConnectLeavesNothing ==
  [][(mounted /\ event' \in {"fetchFailed", "connectRejected"} /\ ~isConnected) =>
       /\ botState' = "idle"
       /\ ~isConnected'
       /\ Len(transcript') = Len(transcript) + 1
       /\ lastMessage(transcript').role = "system"
       /\ roomRef' = 0]_vars
ConnectedNotice == Msg("system", "Connected to HF Inference Model.")
ConnectingNotice == Msg("system", "Connecting to Server...")
LinkNotice == Msg("system", "Secure Link Established.")
ConnectFailures == {"fetchFailed", "connectRejected"}

\* the run so far is one connect request that has succeeded, and nothing else
SingleConnectDone == mounted /\ clicks = 1 /\ isConnected

\* during a run of one connect request that does not fail, botState goes
\* idle -> processing on the request and processing -> idle on its completion
SingleConnectSteps ==
  (mounted' /\ clicks' <= 1 /\ botState' # botState /\ event' \notin ConnectFailures) =>
     \/ botState = "idle" /\ botState' = "processing" /\ event' = "connect"
     \/ botState = "processing" /\ botState' = "idle" /\ event' = "connected"

\* C11 as stated: a single successful connect from the initial state goes
\* processing then idle, ends connected, and leaves exactly one system entry
\* in the transcript, in both controllers.
C11_OneSystemEntry ==
  /\ [](SingleConnectDone =>
          /\ botState = "idle"
          /\ Len(transcript) = 1
          /\ transcript[1].role = "system")
  /\ [][SingleConnectSteps]_vars

\* C11 amended: a single successful connect from the initial state goes
\* processing then idle and ends connected; the simulated controller leaves
\* exactly the success notice, the live controller the "Connecting to
\* Server..." notice followed by the success notice.
C11_SingleConnect ==
  /\ [](SingleConnectDone =>
          /\ botState = "idle"
          /\ transcript = (IF variant = "sim" THEN <<ConnectedNotice>>
                                              ELSE <<ConnectingNotice, LinkNotice>>))
  /\ [][SingleConnectSteps]_vars

\* C11 happens: the one connect request has just completed
C11_Witness == SingleConnectDone /\ event = "connected" /\ variant = "live"
\* is s a prefix of t
IsPrefix(s, t) == Len(s) <= Len(t) /\ \A i \in 1..Len(s) : s[i] = t[i]
HasTimer(kind) == \E i \in 1..Len(timers) : timers[i].kind = kind
UserEntry == Msg("user", UserText)
BotEntry == Msg("bot", BotText)

\* the requests of one speaking turn: connect, start speaking, stop speaking
TurnRequests == <<"connect", "toggleStart", "toggleStop">>
InTurnRun == variant = "sim" /\ IsPrefix(requests, TurnRequests)

\* C12: in the simulated controller, from connected and idle and with no
\* other user action, toggle-speak gives listening, a second toggle-speak
\* gives processing, the response timer gives speaking and the playback
\* timer gives idle; over the turn the transcript gains exactly one user
\* entry followed by exactly one bot entry.
C12_OneTurn ==
  /\ []((InTurnRun /\ Len(requests) = 2) =>
          botState = "listening" /\ transcript = <<ConnectedNotice>>)
  /\ []((InTurnRun /\ Len(requests) = 3) =>
          \/ /\ botState = "processing" /\ HasTimer("response")
             /\ transcript = <<ConnectedNotice>>
          \/ /\ botState = "speaking" /\ HasTimer("playback")
             /\ transcript = <<ConnectedNotice, UserEntry>>
          \/ /\ botState = "idle" /\ timers = <<>>
             /\ transcript = <<ConnectedNotice, UserEntry, BotEntry>>)
  /\ [][(InTurnRun' /\ Len(requests) >= 1 /\ isConnected /\ botState' # botState) =>
          \/ botState = "idle" /\ botState' = "listening" /\ event' = "toggleStart"
          \/ botState = "listening" /\ botState' = "processing" /\ event' = "toggleStop"
          \/ botState = "processing" /\ botState' = "speaking" /\ event' = "response"
          \/ botState = "speaking" /\ botState' = "idle" /\ event' = "playback"]_vars

\* C12 happens: the turn has run to its end
C12_Witness ==
  /\ InTurnRun /\ requests = TurnRequests
  /\ event = "playback" /\ botState = "idle"
  /\ lastMessage(transcript) = BotEntry
Count(t, role) == Cardinality({i \in 1..Len(t) : t[i].role = role})
Stops == Cardinality({i \in 1..Len(requests) : requests[i] = "toggleStop"})

\* C13 as stated: in the simulated controller, whenever botState is
\* processing after a stop the turn's user entry is already in the
\* transcript, and whenever botState is speaking the turn's bot entry is.
C13_EntriesBeforeResponse ==
  variant = "sim" =>
    /\ (botState = "processing" /\ event = "toggleStop") =>
          Count(transcript, "user") = Stops
    /\ (botState = "speaking" /\ event = "response") =>
          Count(transcript, "bot") = Stops

\* C13 amended: in the simulated controller the stop itself appends
\* nothing; the user entry is appended by the response timer, together with
\* the change to speaking, and the bot entry by the playback timer, together
\* with the change to idle; nothing else appends a user or bot entry.
C13_EntriesOnTimers ==
  [][variant = "sim" =>
       /\ event' = "toggleStop" => transcript' = transcript
       /\ event' = "response" =>
            botState' = "speaking" /\ transcript' = Append(transcript, UserEntry)
       /\ event' = "playback" =>
            botState' = "idle" /\ transcript' = Append(transcript, BotEntry)
       /\ (Count(transcript', "user") # Count(transcript, "user")
             \/ Count(transcript', "bot") # Count(transcript, "bot")) =>
            event' \in {"response", "playback"}]_vars

\* C13 happens: the response timer has just fired after a stop
C13_Witness ==
  /\ variant = "sim" /\ Stops > 0
  /\ event = "response" /\ botState = "speaking"
  /\ lastMessage(transcript) = UserEntry
\* C14: in the live controller disconnect() is called at most once on any
\* Room, whatever mix of user disconnect, unmount cleanup and transport
\* session end occurs.
C14_ReleasedOnce ==
  \A r \in 1..Len(rooms) : rooms[r].released <= 1

\* C14 happens: a Room was released by the user's disconnect and the unmount
\* cleanup ran afterwards
C14_Witness ==
  /\ event = "unmount"
  /\ \E i \in 1..Len(requests) : requests[i] = "disconnect"
  /\ \E r \in 1..Len(rooms) : rooms[r].released = 1 /\ rooms[r].st \in {"closing", "ended"}

\* C15: in the live controller a drop reported by the transport leaves
\* connected false, botState idle, a system "Disconnected." Utterance
\* appended, every running sampler loop cancelled and AudioLevel 0.
C15_DropHandledLikeDisconnect ==
  [][(mounted /\ event' = "dropped") =>
       /\ ~isConnected'
       /\ botState' = "idle"
       /\ transcript' = Append(transcript, Disconnected)
       /\ loops' = {}
       /\ audioLevel' = 0]_vars

MicDeniedNotice == Msg("system", "Microphone access denied.")

\* C16: in the live controller, when enabling the microphone is rejected,
\* botState returns to idle, exactly one system "Microphone access denied."
\* Utterance is appended, no sampler loop is started and the session is
\* left as it was, so that a later toggle-speak is handled as before.
C16_MicDenied ==
  [][(mounted /\ event' = "micDenied") =>
       /\ botState' = "idle"
       /\ transcript' = Append(transcript, MicDeniedNotice)
       /\ loops' = loops /\ animationFrameRef' = animationFrameRef
       /\ isConnected' = isConnected /\ roomRef' = roomRef /\ rooms' = rooms
       /\ ToggleIgnored' = ToggleIgnored]_vars

\* C16 happens: after a denied microphone request a later toggle-speak was
\* accepted on the same session
C16_Witness ==
  /\ mounted /\ isConnected
  /\ event = "toggleStart" /\ botState = "listening"
  /\ lastMessage(transcript) = MicDeniedNotice
IsFailureNotice(msg) ==
  /\ msg.role = "system"
  /\ msg.text \in {"Connection failed: Failed to fetch",
                   "Connection failed: No token received",
                   "Connection failed: could not establish signal connection"}

\* the Connect button is rendered, so a connect request is accepted
ConnectAccepted == mounted /\ ~isConnected

\* C17: in the live controller a failed connect() leaves botState idle and
\* connected false, a state in which a new connect request is accepted, and
\* a connect attempt whose token fetch and handshake succeed ends with
\* connected true and botState idle.
C17_FailureRecoverable ==
  [][/\ (mounted /\ ~isConnected /\ event' \in ConnectFailures) =>
          botState' = "idle" /\ ~isConnected' /\ ConnectAccepted'
     /\ (mounted /\ variant = "live" /\ event' = "connected") =>
          isConnected' /\ botState' = "idle"]_vars

\* C17 happens: a connect failed, the user asked again and the second
\* attempt connected
C17_Witness ==
  /\ mounted /\ variant = "live"
  /\ requests = <<"connect", "connect">>
  /\ Len(transcript) = 4
  /\ IsFailureNotice(transcript[2])
  /\ transcript[3] = ConnectingNotice
  /\ transcript[4] = LinkNotice
  /\ isConnected /\ botState = "idle"

\* C18: the transcript is append-only in both controllers: a step leaves it
\* unchanged or adds one entry at its end, every earlier value staying a
\* prefix, and the last-entry read then returns the entry just appended.
C18_AppendOnly ==
  [][/\ IsPrefix(transcript, transcript')
     /\ transcript' # transcript =>
          /\ Len(transcript') = Len(transcript) + 1
          /\ lastMessage(transcript') = transcript'[Len(transcript) + 1]
          /\ lastMessage(transcript').role \in {"user", "bot", "system"}]_vars

\* C18 happens: the transcript was kept across a disconnect and a reconnect
C18_Witness ==
  \E i \in 1..Len(transcript) :
    /\ transcript[i] = Disconnected
    /\ i < Len(transcript)
    /\ lastMessage(transcript) \in {ConnectedNotice, LinkNotice}

ConnectCompletions == {"fetchFailed", "connected", "connectRejected"}
StaleCallbacks == {"ended", "dropped", "micDenied"}
Hung ==
  /\ variant = "live" /\ mounted /\ ~isConnected
  /\ ConnectInFlight /\ botState = "processing"

\* C19 as stated: in the live controller, while the token fetch or the
\* handshake is pending, nothing but the completion of a connect attempt
\* moves botState out of processing, and toggle-speak is ignored.
C19_StuckInProcessing ==
  [][Hung =>
       /\ (botState' # "processing" => event' \in ConnectCompletions)
       /\ (event' \in Toggles => event' = "toggleIgnored")]_vars

\* C19 amended: while the token fetch or the handshake is pending, botState
\* leaves processing only when a connect attempt completes or fails, or when
\* a callback left from an earlier session runs (the session-ended event of
\* a Room, a rejected microphone request); there is no timeout and
\* toggle-speak is ignored.
C19_StuckUntilCallback ==
  [][Hung =>
       /\ (botState' # "processing" =>
             event' \in ConnectCompletions \cup StaleCallbacks)
       /\ (event' \in Toggles => event' = "toggleIgnored" /\ botState' = "processing")]_vars

\* C19 happens: toggle-speak was tried while the handshake of the held Room
\* was still pending
C19_Witness ==
  /\ Hung
  /\ roomRef # 0 /\ rooms[roomRef].st = "connecting"
  /\ event = "toggleIgnored"
\* C20: the token endpoint answers in one of two exclusive ways: with a
\* missing or empty API key or secret, status 500 and an {error} body and no
\* token; otherwise an {accessToken} body whose grant has roomJoin,
\* canPublish and canSubscribe for the room "voice-bot-room".
C20_TokenOutcomes ==
  \A rnd \in RandomSuffixes :
    LET res == GET(apiKey, apiSecret, rnd) IN
    IF Missing(apiKey) \/ Missing(apiSecret)
      THEN /\ res.status = 500
           /\ DOMAIN res.body = {"error"}
      ELSE /\ DOMAIN res.body = {"accessToken"}
           /\ res.body.accessToken.video.roomJoin
           /\ res.body.accessToken.video.canPublish
           /\ res.body.accessToken.video.canSubscribe
           /\ res.body.accessToken.video.room = "voice-bot-room"

\* C20 happens: the endpoint was asked with a secret missing and the client
\* got no token
C20_Witness ==
  /\ ~Missing(apiKey) /\ Missing(apiSecret)
  /\ event = "fetchFailed"
  /\ lastMessage(transcript) = Msg("system", "Connection failed: No token received")
\* the handlers that cancel the sampler: if (ref.current) cancel(ref.current)
CancelEvents == {"disconnect", "unmount", "toggleStop", "playback"}
\* no loop is running for the id the ref holds
NoLoopForRef == intervalRef \notin intervals /\ animationFrameRef \notin loops

C22_StateEnumerated ==
  /\ botState \in BotStates
  /\ event = "init" => botState = "idle"

\* C22 happens: every kind of request has been made and botState has gone
\* through a whole turn (simulated), or a transport event has ended the
\* session (live)
C22_Witness ==
  \/ /\ variant = "sim" /\ event = "playback" /\ botState = "idle"
     /\ \E i \in 1..Len(requests) : requests[i] = "disconnect"
  \/ /\ variant = "live" /\ event = "dropped" /\ botState = "idle"
     /\ \E i \in 1..Len(requests) : requests[i] = "toggleStop"
\* the number of entries of the transcript equal to msg
Entries(t, msg) == Cardinality({i \in 1..Len(t) : t[i] = msg})

\* C23: in the simulated controller the transcript never holds more
\* "Connected to HF Inference Model." entries than "Disconnected." entries
\* plus one: a connect request made while a connect is in flight gives no
\* second completion.
C23_ConnectsPaired ==
  variant = "sim" =>
    Entries(transcript, ConnectedNotice) <= Entries(transcript, Disconnected) + 1

\* C24: in the live controller every Room created by handleConnect is the
\* one held in roomRef or has had disconnect() called on it: no connect
\* request overwrites a held Room that was not released.
C24_NoHandleLeaked ==
  variant = "live" =>
    \A r \in 1..Len(rooms) : r = roomRef \/ rooms[r].released >= 1
\* C25: in the simulated controller, when scheduled timers eventually fire,
\* every user stop (listening -> processing) is eventually followed by
\* botState = idle, whatever toggle-speak and disconnect requests come in
\* between.
C25_StopReachesIdle ==
  (variant = "sim" /\ event = "toggleStop" /\ botState = "processing")
     ~> (botState = "idle")

\* C25 happens: the user toggled speak again after the stop, and the playback
\* timer of the stopped turn still brought botState back to idle
C25_Witness ==
  /\ variant = "sim"
  /\ requests = <<"connect", "toggleStart", "toggleStop", "toggleStart">>
  /\ event = "playback" /\ botState = "idle"
\* the number of pending setTimeout callbacks of one kind
Pending(kind) == Cardinality({i \in 1..Len(timers) : timers[i].kind = kind})

\* C26: in the simulated controller the transcript never holds more bot
\* entries than user entries, nor more user entries than stops performed;
\* every stop has given one user entry once its response timer has fired and
\* one bot entry once its playback timer has fired, also when turns overlap
\* or a disconnect comes in between.
C26_EntriesPerStop ==
  variant = "sim" =>
    /\ Count(transcript, "bot") <= Count(transcript, "user")
    /\ Count(transcript, "user") <= Stops
    /\ Count(transcript, "user") + Pending("response") = Stops
    /\ Count(transcript, "bot") + Pending("playback") = Count(transcript, "user")

\* C26 happens: the session was disconnected during a turn and the turn's
\* timers still delivered its user entry and its bot entry
C26_Witness ==
  /\ variant = "sim"
  /\ requests = <<"connect", "toggleStart", "toggleStop", "disconnect">>
  /\ transcript = <<ConnectedNotice, Disconnected, UserEntry, BotEntry>>
  /\ timers = <<>>
\* the live controller is in processing after a user stop: processing with
\* the session connected arises from the stop branch only
AfterStop ==
  variant = "live" /\ mounted /\ isConnected /\ botState = "processing"
SessionEnds == {"disconnect", "ended", "dropped"}
NoAgentOutput ==
  variant = "live" => botState # "speaking" /\ Count(transcript, "bot") = 0

\* C27 as stated: in the live controller botState is never speaking and no
\* bot entry is appended; after a user stop botState stays processing until
\* the user toggles speak again (-> listening) or a disconnect resets it to
\* idle.
C27_StaysProcessing ==
  /\ []NoAgentOutput
  /\ [][(AfterStop /\ botState' # "processing") =>
          \/ event' = "toggleStart" /\ botState' = "listening"
          \/ event' \in SessionEnds /\ botState' = "idle"]_vars

\* C27 amended: in the live controller botState is never speaking and no
\* bot entry is appended; after a user stop botState leaves processing only
\* when the user toggles speak again (-> listening), or for idle when the
\* session ends, when the microphone request of the earlier start is
\* rejected, or when another connect attempt completes or fails.
C27_NeverSpeaking ==
  /\ []NoAgentOutput
  /\ [][(AfterStop /\ botState' # "processing") =>
          \/ event' = "toggleStart" /\ botState' = "listening"
          \/ /\ event' \in SessionEnds \cup {"micDenied"} \cup ConnectCompletions
             /\ botState' = "idle"]_vars

\* C27 happens: after a stop the user toggled speak again while botState was
\* still processing
C27_Witness ==
  /\ variant = "live" /\ mounted /\ isConnected
  /\ requests = <<"connect", "toggleStart", "toggleStop", "toggleStart">>
  /\ event = "toggleStart" /\ botState = "listening"
MuteRequests == {"toggleMute", "toggleMuteNoop"}

\* C28: in the components-based revision the displayed botState is derived
\* only from the agent state, thinking shown as processing; a toggle-mute
\* request inverts the local participant's microphone-enabled flag and
\* changes nothing else, so that once the requests made have been served the
\* flag is the original one inverted once per request, two requests
\* restoring it; without a local participant the request changes nothing.
C28_ToggleMuteInverts ==
  /\ [](variant = "components" =>
          /\ botState = DisplayedState(agentState)
          /\ micRequests = <<>> => isMicrophoneEnabled = micWanted)
  /\ [][(event' \in MuteRequests /\ clicks' # clicks) =>
          /\ UNCHANGED <<botState, agentState, isConnected, audioLevel,
                         transcript, localParticipant>>
          /\ ~localParticipant =>
               UNCHANGED <<isMicrophoneEnabled, micRequests>>]_vars
====
